---- MODULE Spec2Model ----
(***************************************************************************)
(* OpenGlass companion application: the chunked photo reassembler and the  *)
(* bounded photo window of usePhotos (sources/app/DeviceView.tsx), the     *)
(* ingestion job DeviceView runs under an InvalidateSync, and the Agent    *)
(* session with its AsyncLock (sources/agent/Agent.ts).                    *)
(*                                                                         *)
(* sources/utils/invalidateSync, sources/utils/lock and                    *)
(* sources/modules/imaging are imported by these files but are not part of *)
(* the sources at hand; they are modelled from sections 4.3, 4.4 and 1 of  *)
(* the specification.                                                      *)
(***************************************************************************)
EXTENDS Integers, Sequences, FiniteSets, TLC

(***************************************************************************)
(* Bounds of the model.                                                    *)
(***************************************************************************)
\* largest chunk id the device sends in the reassembler specification
MaxId == 2
\* number of notification records delivered in the reassembler specification
MaxRecords == 6
\* number of photos the device sends to a window of 10
MaxPhotos == 11
\* number of photos the device sends while the scheduler is observed
MaxSyncPhotos == 3
\* number of rotateImage calls in flight at a time
MaxRotating == 1
\* number of rotateImage calls that fail
MaxRotateFail == 1
\* number of questions the user submits while the scheduler is observed
MaxQuestions == 1
\* number of questions submitted to the Agent alone
MaxAsks == 2
\* number of photos passed to the Agent alone
MaxAgentPhotos == 3
\* number of photos the device sends while actions of the lock may fail
MaxFailPhotos == 2
\* number of photos the device sends while rotations overlap
MaxOrderPhotos == 4
\* number of rotateImage calls in flight at one time when they overlap
MaxInFlight == 2
\* number of listeners that are ever registered
MaxListeners == 2
\* number of photos added during a session of questions
MaxSessionPhotos == 1
\* number of actions of the lock that fail
MaxActionFail == 1
\* number of unfinished inLock calls behind which addPhoto is still called
MaxWaiting == 3

(***************************************************************************)
(* Program constants.                                                      *)
(***************************************************************************)
\* onChunk(null, ...): the END marker. packetId is array[0] + (array[1] << 8),
\* never negative, so -1 stands for the null id without clashing with an id.
null == -1
\* previousChunk === -1: no transfer in progress
Idle == -1
\* p.slice(-9): the photos kept when one more is pushed
KeepLast == 9

\* the byte values the payloads are drawn from
Bytes == {0, 255}

VARIABLES
    \* usePhotos, the reassembler (DeviceView.tsx:34-35)
    previousChunk,  \* let previousChunk = -1
    buffer,         \* let buffer: Uint8Array
    \* rotateImage(buffer, '270') promises that have not settled yet
    rotating,
    \* number of Uint8Array photo buffers handed to rotateImage so far;
    \* gives each photo object its identity
    photoSeq,
    \* usePhotos, the photo window (DeviceView.tsx:11)
    photos,         \* const [photos, setPhotos] = React.useState([])
    photosDirty,    \* the effect on [photos] has not run for this value yet
    \* DeviceView, the ingestion job (DeviceView.tsx:115-125)
    processedPhotos,  \* processedPhotos.current
    processed,        \* let processed = 0
    jobs,             \* the invocations of the job that have not returned
    \* InvalidateSync (sources/utils/invalidateSync)
    syncRunning,
    syncPending,
    \* Agent (Agent.ts:20-24)
    lockQueue,      \* #lock: the actions passed to inLock and not finished
    agentPhotos,    \* #photos
    agentState,     \* #state
    stateCopy,      \* #stateCopy
    keys,           \* sources/keys: which API keys are non-blank
    rejected,       \* inLock calls that have failed, their caller not resumed
    stateListeners, \* #stateListeners
    iter,           \* the for...of loop of a #notify in progress
    \* history variables, read only by the properties and the bounds
    nrec,           \* records delivered so far
    lastRec,        \* the record of the last onChunk call
    pre,            \* previousChunk and buffer before the last onChunk call
    lastEmit,       \* the buffers the last onChunk call handed to rotateImage
    xfer,           \* the transfer the device is sending, as the device sees it
    xfer2,          \* a transfer whose START arrived while xfer was open
    ev,             \* the last invalidate() call or job completion
    invInRun,       \* invalidate() calls since the executing run started
    owed,           \* an invalidate() call has not been followed by a run yet
    callLog,        \* the unfinished inLock calls, in call order
    active,         \* the inLock actions that have started and not finished
    lastStart,      \* what the last inLock action found when it started
    nasked,         \* answer() calls so far
    nfailed,        \* rotateImage calls that have failed
    lastPush,       \* the window before the last push and the photo pushed
    appended,       \* the photos addPhoto's actions have appended, in order
    queryFailed,    \* a backend call has failed
    lastOutcome,    \* what the last backend call to settle ended with
    issued,         \* the photos passed to addPhoto, in the order of the calls
    askedWith,      \* the photos passed to addPhoto before the last answer()
                    \* call that entered the lock
    pushLog,        \* the ids of the photos pushed to the window, in order
    nActFailed,     \* actions of the lock that have failed
    lastFail,       \* the last failed action and the calls waiting behind it
    nJobFailed,     \* runs of the job that have failed
    detached,       \* the listeners whose cleanup has run (all), and those
                    \* whose cleanup ran during a #notify (mid)
    lastCalled      \* the listener #notify called last, and whether its
                    \* cleanup had run when that #notify began (stale)

reasmVars == <<previousChunk, buffer, rotating, photoSeq>>
windowVars == <<photos, photosDirty>>
jobVars == <<processedPhotos, processed, jobs>>
syncVars == <<syncRunning, syncPending>>
agentVars == <<lockQueue, agentPhotos, agentState, stateCopy>>
reasmHist == <<nrec, lastRec, pre, lastEmit, xfer, xfer2>>
histVars == <<reasmHist, nasked, nfailed, lastPush>>
syncHist == <<ev, invInRun, owed>>
lockHist == <<callLog, active, lastStart>>
listenVars == <<stateListeners, iter, detached, lastCalled>>
sessionHist == <<appended, queryFailed, lastOutcome>>
callHist == <<issued, askedWith, pushLog>>
failHist == <<nActFailed, lastFail, nJobFailed>>
vars == <<previousChunk, buffer, rotating, photoSeq, photos, photosDirty,
          processedPhotos, processed, jobs, syncRunning, syncPending,
          lockQueue, agentPhotos, agentState, stateCopy, keys,
          nrec, lastRec, pre, lastEmit, xfer, xfer2,
          ev, invInRun, owed, callLog, active, lastStart, nasked,
          nfailed, lastPush, rejected, stateListeners, iter, appended,
          queryFailed, lastOutcome, nActFailed, lastFail, nJobFailed, detached,
          lastCalled, issued, askedWith, pushLog>>

(***************************************************************************)
(* Payloads of the records: the empty chunk and the one-byte chunks.       *)
(***************************************************************************)
Payloads == {<<>>} \cup {<<b>> : b \in Bytes}

\* a photo object: the bytes, the identity of the array, the rotation applied
Photo(n, bytes) == [id |-> n, bytes |-> bytes, rot |-> 0]

\* rotateImage(buffer, '270'): an opaque transform of the image
RotateImage(p, angle) == [p EXCEPT !.rot = (p.rot + angle) % 360]

(***************************************************************************)
(* onChunk(id, data), DeviceView.tsx:36-80.                                *)
(***************************************************************************)
\* mutant: the START branch keeps the old buffer (no buffer = new Uint8Array(0))
OnChunkKeepBuffer(id, data) ==
    IF previousChunk = Idle
    THEN IF id = null
         THEN UNCHANGED <<previousChunk, buffer, rotating, photoSeq>>
         ELSE IF id = 0
              THEN /\ previousChunk' = 0
                   /\ buffer' = buffer \o data
                   /\ UNCHANGED <<rotating, photoSeq>>
              ELSE UNCHANGED <<previousChunk, buffer, rotating, photoSeq>>
    ELSE IF id = null
         THEN /\ IF Len(buffer) = 0
                 THEN UNCHANGED <<rotating, photoSeq>>
                 ELSE /\ rotating' = Append(rotating, Photo(photoSeq + 1, buffer))
                      /\ photoSeq' = photoSeq + 1
              /\ previousChunk' = Idle
              /\ UNCHANGED buffer
         ELSE IF id # previousChunk + 1
              THEN /\ previousChunk' = Idle
                   /\ buffer' = <<>>
                   /\ UNCHANGED <<rotating, photoSeq>>
              ELSE /\ previousChunk' = id
                   /\ buffer' = buffer \o data
                   /\ UNCHANGED <<rotating, photoSeq>>

\* mutant: a mismatched chunk with id 0 is taken as the START of a new transfer
OnChunkResync(id, data) ==
    IF previousChunk = Idle
    THEN IF id = null
         THEN UNCHANGED <<previousChunk, buffer, rotating, photoSeq>>
         ELSE IF id = 0
              THEN /\ previousChunk' = 0
                   /\ buffer' = data
                   /\ UNCHANGED <<rotating, photoSeq>>
              ELSE UNCHANGED <<previousChunk, buffer, rotating, photoSeq>>
    ELSE IF id = null
         THEN /\ IF Len(buffer) = 0
                 THEN UNCHANGED <<rotating, photoSeq>>
                 ELSE /\ rotating' = Append(rotating, Photo(photoSeq + 1, buffer))
                      /\ photoSeq' = photoSeq + 1
              /\ previousChunk' = Idle
              /\ UNCHANGED buffer
         ELSE IF id # previousChunk + 1
              THEN /\ previousChunk' = IF id = 0 THEN 0 ELSE Idle
                   /\ buffer' = IF id = 0 THEN data ELSE <<>>
                   /\ UNCHANGED <<rotating, photoSeq>>
              ELSE /\ previousChunk' = id
                   /\ buffer' = buffer \o data
                   /\ UNCHANGED <<rotating, photoSeq>>

\* mutant: a mismatched chunk resets previousChunk but keeps the buffer
OnChunkKeepOnMismatch(id, data) ==
    IF previousChunk = Idle
    THEN IF id = null
         THEN UNCHANGED <<previousChunk, buffer, rotating, photoSeq>>
         ELSE IF id = 0
              THEN /\ previousChunk' = 0
                   /\ buffer' = data
                   /\ UNCHANGED <<rotating, photoSeq>>
              ELSE UNCHANGED <<previousChunk, buffer, rotating, photoSeq>>
    ELSE IF id = null
         THEN /\ IF Len(buffer) = 0
                 THEN UNCHANGED <<rotating, photoSeq>>
                 ELSE /\ rotating' = Append(rotating, Photo(photoSeq + 1, buffer))
                      /\ photoSeq' = photoSeq + 1
              /\ previousChunk' = Idle
              /\ UNCHANGED buffer
         ELSE IF id # previousChunk + 1
              THEN /\ previousChunk' = Idle
                   /\ UNCHANGED <<buffer, rotating, photoSeq>>
              ELSE /\ previousChunk' = id
                   /\ buffer' = buffer \o data
                   /\ UNCHANGED <<rotating, photoSeq>>

\* mutant: END hands the buffer to rotateImage without the buffer.length check
OnChunkNoEmptyCheck(id, data) ==
    IF previousChunk = Idle
    THEN IF id = null
         THEN UNCHANGED <<previousChunk, buffer, rotating, photoSeq>>
         ELSE IF id = 0
              THEN /\ previousChunk' = 0
                   /\ buffer' = data
                   /\ UNCHANGED <<rotating, photoSeq>>
              ELSE UNCHANGED <<previousChunk, buffer, rotating, photoSeq>>
    ELSE IF id = null
         THEN /\ rotating' = Append(rotating, Photo(photoSeq + 1, buffer))
              /\ photoSeq' = photoSeq + 1
              /\ previousChunk' = Idle
              /\ UNCHANGED buffer
         ELSE IF id # previousChunk + 1
              THEN /\ previousChunk' = Idle
                   /\ buffer' = <<>>
                   /\ UNCHANGED <<rotating, photoSeq>>
              ELSE /\ previousChunk' = id
                   /\ buffer' = buffer \o data
                   /\ UNCHANGED <<rotating, photoSeq>>

OnChunk(id, data) ==
    IF previousChunk = Idle
    THEN IF id = null
         THEN UNCHANGED <<previousChunk, buffer, rotating, photoSeq>>
         ELSE IF id = 0
              THEN \* previousChunk = 0; buffer = new Uint8Array(0); then append
                   /\ previousChunk' = 0
                   /\ buffer' = data
                   /\ UNCHANGED <<rotating, photoSeq>>
              ELSE UNCHANGED <<previousChunk, buffer, rotating, photoSeq>>
    ELSE IF id = null
         THEN /\ IF Len(buffer) = 0
                 THEN UNCHANGED <<rotating, photoSeq>>
                 ELSE \* rotateImage(buffer, '270') is started
                      /\ rotating' = Append(rotating, Photo(photoSeq + 1, buffer))
                      /\ photoSeq' = photoSeq + 1
              /\ previousChunk' = Idle
              /\ UNCHANGED buffer
         ELSE IF id # previousChunk + 1
              THEN /\ previousChunk' = Idle
                   /\ buffer' = <<>>
                   /\ UNCHANGED <<rotating, photoSeq>>
              ELSE /\ previousChunk' = id
                   /\ buffer' = buffer \o data
                   /\ UNCHANGED <<rotating, photoSeq>>

(***************************************************************************)
(* History of the transfers, kept from the records alone.                  *)
(*   xfer: opened by a record with id 0 that arrives when no transfer is   *)
(*   open; continued by the ids 1, 2, ...; "done" at END; "broken" by any   *)
(*   other record.  emits counts the photos emitted since it opened.       *)
(*   xfer2: opened by a record with id 0 that breaks an open xfer.         *)
(***************************************************************************)
NoXfer == [status |-> "none", next |-> 0, bytes |-> <<>>, emits |-> 0,
           fromIdle |-> FALSE, afterBreak |-> FALSE]

Track(x, id, data, n, restart) ==
    IF x.status = "open"
    THEN IF id = null
         THEN [x EXCEPT !.status = "done", !.emits = @ + n]
         ELSE IF id = x.next
              THEN [x EXCEPT !.next = @ + 1, !.bytes = @ \o data, !.emits = @ + n]
              ELSE [x EXCEPT !.status = "broken", !.emits = @ + n]
    ELSE IF restart
         THEN [status |-> "open", next |-> 1, bytes |-> data, emits |-> n,
               fromIdle |-> previousChunk = Idle,
               afterBreak |-> x.status = "broken"]
         ELSE IF x.status = "broken"
              THEN [x EXCEPT !.emits = @ + n]
              ELSE NoXfer

(***************************************************************************)
(* The characteristicvaluechanged listener delivers one record to onChunk. *)
(* Deliver also keeps the history of the transfers.                        *)
(***************************************************************************)
Deliver(id, data) ==
    /\ OnChunk(id, data)
    /\ nrec' = nrec + 1
    /\ lastRec' = [id |-> id, data |-> data]
    /\ pre' = [previousChunk |-> previousChunk, buffer |-> buffer]
    /\ lastEmit' = SubSeq(rotating', Len(rotating) + 1, Len(rotating'))
    /\ LET n == Len(rotating') - Len(rotating)
       IN  /\ xfer' = Track(xfer, id, data, n, id = 0)
           /\ xfer2' = Track(xfer2, id, data, n,
                             xfer.status = "open" /\ id = 0)
    /\ UNCHANGED <<windowVars, jobVars, syncVars, agentVars, keys, rejected, listenVars,
                   sessionHist, callHist, failHist,
                   syncHist, lockHist, nasked, nfailed, lastPush>>

\* the same listener, without the history of the transfers
Notification(id, data) ==
    /\ OnChunk(id, data)
    /\ UNCHANGED <<windowVars, jobVars, syncVars, agentVars, keys, rejected, listenVars,
                   sessionHist, callHist, failHist,
                   histVars, syncHist, lockHist>>

ChunkIds == {null} \cup (0..MaxId)

(***************************************************************************)
(* The photo window, DeviceView.tsx:55-64.                                 *)
(***************************************************************************)
\* p.slice(-n): the last n elements of p, all of p when it has fewer
SliceLast(p, n) == SubSeq(p, IF Len(p) > n THEN Len(p) - n + 1 ELSE 1, Len(p))

\* p.slice(n): the elements of p from (0-based) index n on
SliceFrom(p, n) == SubSeq(p, n + 1, Len(p))

\* s without its i-th element
RemoveAt(s, i) == SubSeq(s, 1, i - 1) \o SubSeq(s, i + 1, Len(s))

\* mutant: the updater keeps ten photos before appending, p.slice(-10)
SetPhotosKeepTen(rotated) ==
    /\ photos' = Append(SliceLast(photos, KeepLast + 1), rotated)
    /\ photosDirty' = TRUE

\* setPhotos((p) => [...p.slice(-9), rotated]); the new array re-renders
\* DeviceView, whose effect on [photos] is then due
SetPhotos(rotated) ==
    /\ photos' = Append(SliceLast(photos, KeepLast), rotated)
    /\ photosDirty' = TRUE

\* rotateImage(...).then(...): the i-th rotation in flight resolves
RotateDone(i) ==
    /\ i \in 1..Len(rotating)
    /\ SetPhotos(RotateImage(rotating[i], 270))
    /\ rotating' = RemoveAt(rotating, i)
    /\ lastPush' = [before |-> photos,
                    pushed |-> <<RotateImage(rotating[i], 270)>>]
    /\ pushLog' = Append(pushLog, rotating[i].id)
    /\ UNCHANGED <<previousChunk, buffer, photoSeq, jobVars, syncVars,
                   agentVars, keys, rejected, listenVars,
                   sessionHist, issued, askedWith, failHist, reasmHist, nasked, nfailed, syncHist,
                   lockHist>>

\* rotateImage(...).catch(...): the i-th rotation in flight rejects
RotateFail(i) ==
    /\ i \in 1..Len(rotating)
    /\ rotating' = RemoveAt(rotating, i)
    /\ nfailed' = nfailed + 1
    /\ UNCHANGED <<previousChunk, buffer, photoSeq, windowVars, jobVars,
                   syncVars, agentVars, keys, rejected, listenVars,
                   sessionHist, callHist, failHist, reasmHist, nasked, lastPush,
                   syncHist, lockHist>>

(***************************************************************************)
(* AsyncLock (sources/utils/lock), from section 4.4: the actions passed to *)
(* inLock run one at a time, in call order.  lockQueue holds the actions   *)
(* that have not finished; its head is the one that may run.               *)
(***************************************************************************)
Tickets(q) == {q[i].ticket : i \in 1..Len(q)}

\* a name for the next inLock call, not in use by an unfinished call
NewTicket ==
    CHOOSE t \in 1..(Len(lockQueue) + Len(jobs) + Len(callLog) + 1) :
        /\ t \notin Tickets(lockQueue)
        /\ t \notin {jobs[i].await : i \in 1..Len(jobs)}
        /\ t \notin {callLog[i] : i \in 1..Len(callLog)}
        /\ \A u \in 1..(t - 1) :
              \/ u \in Tickets(lockQueue)
              \/ u \in {jobs[i].await : i \in 1..Len(jobs)}
              \/ u \in {callLog[i] : i \in 1..Len(callLog)}

\* inLock(action): the action joins the queue
InLock(q, action) == Append(q, action)

\* the action that holds the lock
LockHolder(q) == q[1]

\* unlock(): the action at the head has finished
Unlock(q) == Tail(q)

\* the promise inLock returned for the call t rejects: the failure goes to
\* the caller of t, here the run of the job that awaits it
Reject(t) ==
    IF \E i \in 1..Len(jobs) : jobs[i].await = t
    THEN rejected \cup {t}
    ELSE rejected

(***************************************************************************)
(* Agent, Agent.ts.                                                        *)
(***************************************************************************)
\* an unset field; every message is a tuple of texts
Undefined == <<>>
Models == {"openai-vision", "ollama-moondream", "groq-llama"}
Advisory == <<"I don't see any photos yet.">>

\* #state as constructed, Agent.ts:22
InitialState == [loading |-> FALSE, selectedModel |-> "openai-vision",
                 answer |-> Undefined, error |-> Undefined,
                 lastDescription |-> <<>>]

\* no #notify is calling the listeners
NoIter == [on |-> FALSE, array |-> <<>>, pos |-> 0, same |-> TRUE,
           gone |-> {}]

\* #notify: the copy of the state handed to the listeners
Notify(st) == stateCopy' = st

\* mutant: addPhoto appends without taking the lock
AgentAddPhotoNoLock(batch) ==
    /\ agentPhotos' = agentPhotos \o batch
    /\ agentState' = [agentState EXCEPT !.lastDescription = <<Len(batch)>>]
    /\ Notify(agentState')
    /\ UNCHANGED lockQueue

\* addPhoto(photos), Agent.ts:26-27: the append is passed to inLock
AgentAddPhoto(batch) ==
    /\ lockQueue' = InLock(lockQueue,
                           [ticket |-> NewTicket, kind |-> "addPhoto",
                            batch |-> batch, st |-> "queued",
                            model |-> "none"])
    /\ UNCHANGED <<agentPhotos, agentState, stateCopy>>

\* mutant: the lock is released only when the action returns normally
AgentAddPhotoActionHoldsLock(fails) ==
    /\ lockQueue # <<>>
    /\ LockHolder(lockQueue).kind = "addPhoto"
    /\ LockHolder(lockQueue).st = "queued"
    /\ agentPhotos' = agentPhotos \o LockHolder(lockQueue).batch
    /\ agentState' = [agentState EXCEPT
                        !.lastDescription = <<Len(LockHolder(lockQueue).batch)>>]
    /\ Notify(agentState')
    /\ IF fails
       THEN /\ rejected' = Reject(LockHolder(lockQueue).ticket)
            /\ lockQueue' = [lockQueue EXCEPT ![1].st = "failed"]
       ELSE /\ rejected' = rejected
            /\ lockQueue' = Unlock(lockQueue)

\* addPhoto's action, Agent.ts:28-38, then the lock is released.  The
\* action fails when a listener called by #notify (Agent.ts:38, 241-243)
\* throws: the photos are appended and the copy of the state is made by
\* then, and the exception leaves the action.
AgentAddPhotoAction(fails) ==
    /\ lockQueue # <<>>
    /\ LockHolder(lockQueue).kind = "addPhoto"
    /\ LockHolder(lockQueue).st = "queued"
    /\ agentPhotos' = agentPhotos \o LockHolder(lockQueue).batch
    /\ agentState' = [agentState EXCEPT
                        !.lastDescription = <<Len(LockHolder(lockQueue).batch)>>]
    /\ Notify(agentState')
    /\ rejected' = IF fails THEN Reject(LockHolder(lockQueue).ticket)
                   ELSE rejected
    /\ lockQueue' = Unlock(lockQueue)

\* mutant: setModel does not notify
AgentSetModelNoNotify(m) ==
    /\ agentState' = [agentState EXCEPT !.selectedModel = m]
    /\ UNCHANGED <<stateCopy, lockQueue, agentPhotos>>

\* setModel(model), Agent.ts:42-46
AgentSetModel(m) ==
    /\ agentState' = [agentState EXCEPT !.selectedModel = m]
    /\ Notify(agentState')
    /\ UNCHANGED <<lockQueue, agentPhotos>>

\* checkModelConfiguration(), Agent.ts:53-79
CheckModelConfiguration ==
    CASE agentState.selectedModel = "openai-vision" ->
            IF ~keys.openai
            THEN [configured |-> FALSE,
                  errorMessage |-> <<"OpenAI API key not configured.">>]
            ELSE [configured |-> TRUE, errorMessage |-> Undefined]
      [] agentState.selectedModel = "ollama-moondream" ->
            [configured |-> TRUE, errorMessage |-> Undefined]
      [] agentState.selectedModel = "groq-llama" ->
            IF ~keys.groq
            THEN [configured |-> FALSE,
                  errorMessage |-> <<"Groq API key not configured.">>]
            ELSE [configured |-> TRUE, errorMessage |-> Undefined]

\* mutant: loading is set before the configuration is checked
AgentAnswerChecksLate ==
    LET config == CheckModelConfiguration
    IN  IF agentState.loading
        THEN UNCHANGED <<lockQueue, agentPhotos, agentState, stateCopy>>
        ELSE IF ~config.configured
             THEN /\ agentState' = [agentState EXCEPT
                                      !.loading = TRUE,
                                      !.error = config.errorMessage,
                                      !.answer = Undefined]
                  /\ Notify(agentState')
                  /\ UNCHANGED <<lockQueue, agentPhotos>>
             ELSE /\ agentState' = [agentState EXCEPT !.loading = TRUE,
                                                      !.error = Undefined]
                  /\ Notify(agentState')
                  /\ lockQueue' = InLock(lockQueue,
                                    [ticket |-> NewTicket, kind |-> "answer",
                                     batch |-> <<>>, st |-> "queued",
                                     model |-> "none"])
                  /\ UNCHANGED agentPhotos

\* mutant: answer() does not look at loading
AgentAnswerNoGuard ==
    LET config == CheckModelConfiguration
    IN  IF ~config.configured
        THEN /\ agentState' = [agentState EXCEPT
                                 !.error = config.errorMessage,
                                 !.answer = Undefined]
             /\ Notify(agentState')
             /\ UNCHANGED <<lockQueue, agentPhotos>>
        ELSE /\ agentState' = [agentState EXCEPT !.loading = TRUE,
                                                 !.error = Undefined]
             /\ Notify(agentState')
             /\ lockQueue' = InLock(lockQueue,
                               [ticket |-> NewTicket, kind |-> "answer",
                                batch |-> <<>>, st |-> "queued",
                                model |-> "none"])
             /\ UNCHANGED agentPhotos

\* answer(question) up to the inLock call, Agent.ts:81-107
AgentAnswer ==
    LET config == CheckModelConfiguration
    IN  IF ~config.configured
        THEN /\ agentState' = [agentState EXCEPT
                                 !.error = config.errorMessage,
                                 !.answer = Undefined]
             /\ Notify(agentState')
             /\ UNCHANGED <<lockQueue, agentPhotos>>
        ELSE IF agentState.loading
             THEN UNCHANGED <<lockQueue, agentPhotos, agentState, stateCopy>>
             ELSE /\ agentState' = [agentState EXCEPT !.loading = TRUE,
                                                      !.error = Undefined]
                  /\ Notify(agentState')
                  /\ lockQueue' = InLock(lockQueue,
                                    [ticket |-> NewTicket, kind |-> "answer",
                                     batch |-> <<>>, st |-> "queued",
                                     model |-> "none"])
                  /\ UNCHANGED agentPhotos

\* mutant: the backend is called also when there is no photo
AgentAnswerActionNoAdvisory ==
    /\ lockQueue # <<>>
    /\ LockHolder(lockQueue).kind = "answer"
    /\ LockHolder(lockQueue).st = "queued"
    /\ lockQueue' = [lockQueue EXCEPT
                       ![1].st = "backend",
                       ![1].model = agentState.selectedModel,
                       ![1].batch = agentPhotos]
    /\ UNCHANGED <<agentState, stateCopy, agentPhotos>>

\* mutant: the backend is called with the last photo only
AgentAnswerActionLastPhoto ==
    /\ lockQueue # <<>>
    /\ LockHolder(lockQueue).kind = "answer"
    /\ LockHolder(lockQueue).st = "queued"
    /\ IF Len(agentPhotos) = 0
       THEN /\ agentState' = [agentState EXCEPT !.answer = Advisory,
                                                !.error = Undefined,
                                                !.loading = FALSE]
            /\ Notify(agentState')
            /\ lockQueue' = Unlock(lockQueue)
       ELSE /\ lockQueue' = [lockQueue EXCEPT
                               ![1].st = "backend",
                               ![1].model = agentState.selectedModel,
                               ![1].batch = SliceFrom(agentPhotos,
                                                      Len(agentPhotos) - 1)]
            /\ UNCHANGED <<agentState, stateCopy>>
    /\ UNCHANGED agentPhotos

\* answer's action up to the backend call, Agent.ts:108-199: without photos
\* the advisory answer, the finally block and the release of the lock; with
\* photos the selected backend is called and the action waits for it
AgentAnswerAction ==
    /\ lockQueue # <<>>
    /\ LockHolder(lockQueue).kind = "answer"
    /\ LockHolder(lockQueue).st = "queued"
    /\ IF Len(agentPhotos) = 0
       THEN /\ agentState' = [agentState EXCEPT !.answer = Advisory,
                                                !.error = Undefined,
                                                !.loading = FALSE]
            /\ Notify(agentState')
            /\ lockQueue' = Unlock(lockQueue)
       ELSE /\ lockQueue' = [lockQueue EXCEPT
                               ![1].st = "backend",
                               ![1].model = agentState.selectedModel,
                               ![1].batch = agentPhotos]
            /\ UNCHANGED <<agentState, stateCopy>>
    /\ UNCHANGED agentPhotos

\* what the backend call ends with: an answer, or an Error whose message
\* holds one of the texts the catch block looks for, or none of them, or a
\* thrown value that is not an Error
Outcomes ==
    {"ok", "401", "429", "402", "Ollama", "network", "other", "thrown"}

\* the message the catch block stores, Agent.ts:209-227
ErrorMessage(outcome, model) ==
    CASE outcome = "401" -> <<"Failed to get response from", model,
                              "Invalid API key. Please check your configuration.">>
      [] outcome = "429" -> <<"Failed to get response from", model,
                              "Rate limit exceeded. Please try again later.">>
      [] outcome = "402" -> <<"Failed to get response from", model,
                              "Billing issue. Please check your account credits.">>
      [] outcome = "Ollama" -> <<"Ollama">>
      [] outcome = "network" ->
                <<"Network error. Please check your internet connection.">>
      [] outcome = "thrown" -> <<"Failed to get response from", model,
                                 "Please check your configuration and try again.">>
      [] OTHER -> <<"Failed to get response from", model, "other">>

\* mutant: the catch block leaves the previous answer in place
AgentBackendReturnKeepsAnswer(outcome) ==
    /\ lockQueue # <<>>
    /\ LockHolder(lockQueue).kind = "answer"
    /\ LockHolder(lockQueue).st = "backend"
    /\ IF outcome = "ok"
       THEN agentState' = [agentState EXCEPT
                             !.answer = <<"answer", LockHolder(lockQueue).model>>,
                             !.error = Undefined,
                             !.loading = FALSE]
       ELSE agentState' = [agentState EXCEPT
                             !.error = ErrorMessage(outcome,
                                                    agentState.selectedModel),
                             !.loading = FALSE]
    /\ Notify(agentState')
    /\ lockQueue' = Unlock(lockQueue)
    /\ UNCHANGED agentPhotos

\* mutant: loading is reset on the success path only
AgentBackendReturnStaysLoading(outcome) ==
    /\ lockQueue # <<>>
    /\ LockHolder(lockQueue).kind = "answer"
    /\ LockHolder(lockQueue).st = "backend"
    /\ IF outcome = "ok"
       THEN agentState' = [agentState EXCEPT
                             !.answer = <<"answer", LockHolder(lockQueue).model>>,
                             !.error = Undefined,
                             !.loading = FALSE]
       ELSE agentState' = [agentState EXCEPT
                             !.error = ErrorMessage(outcome,
                                                    agentState.selectedModel),
                             !.answer = Undefined]
    /\ Notify(agentState')
    /\ lockQueue' = Unlock(lockQueue)
    /\ UNCHANGED agentPhotos

\* mutant: a failed query empties the photos
AgentBackendReturnDropsPhotos(outcome) ==
    /\ lockQueue # <<>>
    /\ LockHolder(lockQueue).kind = "answer"
    /\ LockHolder(lockQueue).st = "backend"
    /\ IF outcome = "ok"
       THEN agentState' = [agentState EXCEPT
                             !.answer = <<"answer", LockHolder(lockQueue).model>>,
                             !.error = Undefined,
                             !.loading = FALSE]
       ELSE agentState' = [agentState EXCEPT
                             !.error = ErrorMessage(outcome,
                                                    agentState.selectedModel),
                             !.answer = Undefined,
                             !.loading = FALSE]
    /\ Notify(agentState')
    /\ lockQueue' = Unlock(lockQueue)
    /\ agentPhotos' = IF outcome = "ok" THEN agentPhotos ELSE <<>>

\* mutant: the finally block notifies before it resets loading
AgentBackendReturnNotifiesEarly(outcome) ==
    /\ lockQueue # <<>>
    /\ LockHolder(lockQueue).kind = "answer"
    /\ LockHolder(lockQueue).st = "backend"
    /\ IF outcome = "ok"
       THEN agentState' = [agentState EXCEPT
                             !.answer = <<"answer", LockHolder(lockQueue).model>>,
                             !.error = Undefined,
                             !.loading = FALSE]
       ELSE agentState' = [agentState EXCEPT
                             !.error = ErrorMessage(outcome,
                                                    agentState.selectedModel),
                             !.answer = Undefined,
                             !.loading = FALSE]
    /\ Notify([agentState' EXCEPT !.loading = TRUE])
    /\ lockQueue' = Unlock(lockQueue)
    /\ UNCHANGED agentPhotos

\* the backend call returns or throws, Agent.ts:201-235: the answer or the
\* error is stored, the finally block runs and the lock is released
AgentBackendReturn(outcome) ==
    /\ lockQueue # <<>>
    /\ LockHolder(lockQueue).kind = "answer"
    /\ LockHolder(lockQueue).st = "backend"
    /\ IF outcome = "ok"
       THEN agentState' = [agentState EXCEPT
                             !.answer = <<"answer", LockHolder(lockQueue).model>>,
                             !.error = Undefined,
                             !.loading = FALSE]
       ELSE agentState' = [agentState EXCEPT
                             !.error = ErrorMessage(outcome,
                                                    agentState.selectedModel),
                             !.answer = Undefined,
                             !.loading = FALSE]
    /\ Notify(agentState')
    /\ lockQueue' = Unlock(lockQueue)
    /\ UNCHANGED agentPhotos

(***************************************************************************)
(* The listeners, Agent.ts:239-256.  With no listener registered, as in    *)
(* every specification but SpecListeners, #notify is the copy of the state *)
(* made by Notify.  A listener is () => setState(this.#stateCopy); the     *)
(* render it causes may mount or unmount components that call use().       *)
(***************************************************************************)
\* s without the listener l: this.#stateListeners.filter(x => x !== l)
Filter(s, l) == SelectSeq(s, LAMBDA x : x # l)

\* the effect of use(), Agent.ts:248-250: push mutates the array, also
\* when it is the array a #notify is iterating over
AgentUse(l) ==
    /\ stateListeners' = Append(stateListeners, l)
    /\ iter' = IF iter.on /\ iter.same
               THEN [iter EXCEPT !.array = Append(@, l)]
               ELSE iter

\* mutant: the cleanup leaves the listener registered
AgentCleanupKeeps(l) ==
    /\ stateListeners' = stateListeners
    /\ iter' = IF iter.on THEN [iter EXCEPT !.same = FALSE] ELSE iter

\* the cleanup returned by the effect, Agent.ts:251-253: the field gets a
\* new array, the array a #notify is iterating over stays as it is
AgentCleanup(l) ==
    /\ stateListeners' = Filter(stateListeners, l)
    /\ iter' = IF iter.on THEN [iter EXCEPT !.same = FALSE] ELSE iter

\* setModel(m) with listeners, Agent.ts:42-46 and 239-241: the copy of the
\* state is made and the for...of loop over this.#stateListeners begins
AgentSetModelNotify(m) ==
    /\ agentState' = [agentState EXCEPT !.selectedModel = m]
    /\ Notify(agentState')
    /\ iter' = [on |-> TRUE, array |-> stateListeners, pos |-> 1,
                same |-> TRUE, gone |-> detached.all]
    /\ UNCHANGED <<lockQueue, agentPhotos, stateListeners>>

\* the loop calls its next listener, Agent.ts:241-243
AgentCallListener ==
    /\ iter.on
    /\ iter.pos <= Len(iter.array)
    /\ iter' = [iter EXCEPT !.pos = @ + 1]
    /\ UNCHANGED stateListeners

\* the loop is over and #notify returns
AgentNotifyEnd ==
    /\ iter.on
    /\ iter.pos > Len(iter.array)
    /\ iter' = NoIter
    /\ UNCHANGED stateListeners

(***************************************************************************)
(* The ingestion job, DeviceView.tsx:118-124, started with the value pp of *)
(* processedPhotos.current while js are the invocations still running.     *)
(***************************************************************************)
\* mutant: the job passes the whole window, not the part after processed
RunJobWholeWindow(pp, js) ==
    IF Len(pp) > processed
    THEN /\ processed' = Len(pp)
         /\ jobs' = Append(js, [await |-> NewTicket])
         /\ AgentAddPhoto(pp)
    ELSE /\ jobs' = Append(js, [await |-> 0])
         /\ UNCHANGED <<processed, agentVars>>

RunJob(pp, js) ==
    IF Len(pp) > processed
    THEN /\ processed' = Len(pp)
         /\ jobs' = Append(js, [await |-> NewTicket])
         /\ AgentAddPhoto(SliceFrom(pp, processed))
    ELSE /\ jobs' = Append(js, [await |-> 0])
         /\ UNCHANGED <<processed, agentVars>>

(***************************************************************************)
(* InvalidateSync (sources/utils/invalidateSync), from section 4.3.        *)
(***************************************************************************)
\* invalidate(): begins a run when none is active, else marks one pending
SyncInvalidate(pp) ==
    IF ~syncRunning
    THEN /\ syncRunning' = TRUE
         /\ UNCHANGED syncPending
         /\ RunJob(pp, jobs)
    ELSE /\ syncPending' = TRUE
         /\ UNCHANGED <<syncRunning, processed, jobs, agentVars>>

\* the active run has completed; js are the invocations still running
SyncComplete(js) ==
    IF syncPending
    THEN /\ syncPending' = FALSE
         /\ UNCHANGED syncRunning
         /\ RunJob(processedPhotos, js)
    ELSE /\ syncRunning' = FALSE
         /\ jobs' = js
         /\ UNCHANGED <<syncPending, processed, agentVars>>

(***************************************************************************)
(* The i-th invocation of the job returns, DeviceView.tsx:121-123: it had  *)
(* nothing to add, or the addPhoto call it awaits has settled.  The job    *)
(* has no catch: when addPhoto rejects, the run fails.  Either way the     *)
(* scheduler completes the run.                                            *)
(***************************************************************************)
\* mutant: a run that failed is never completed
JobReturnFailureStops(i) ==
    /\ rejected' = rejected \ {jobs[i].await}
    /\ IF jobs[i].await \in rejected
       THEN /\ jobs' = RemoveAt(jobs, i)
            /\ UNCHANGED <<syncVars, processed, agentVars>>
       ELSE SyncComplete(RemoveAt(jobs, i))

JobReturn(i) ==
    /\ rejected' = rejected \ {jobs[i].await}
    /\ SyncComplete(RemoveAt(jobs, i))

(***************************************************************************)
(* DeviceView's effect on [photos], DeviceView.tsx:126-129.                *)
(***************************************************************************)
\* mutant: the effect runs the job itself instead of calling invalidate()
PhotosEffectRunsJob ==
    /\ processedPhotos' = photos
    /\ RunJob(photos, jobs)
    /\ UNCHANGED syncVars

\* mutant: the effect stores the photos and forgets sync.invalidate()
PhotosEffectNoInvalidate ==
    /\ processedPhotos' = photos
    /\ UNCHANGED <<processed, jobs, syncVars, agentVars>>

PhotosEffect ==
    /\ processedPhotos' = photos
    /\ SyncInvalidate(photos)

(***************************************************************************)
(* History of the lock: callLog gains the calls that joined the queue and  *)
(* loses the ones that have left it.                                       *)
(***************************************************************************)
SeqMinus(s, S) == SelectSeq(s, LAMBDA x : x \notin S)

LogCalls ==
    LET old == Tickets(lockQueue)
        new == Tickets(lockQueue')
        joined == SelectSeq([i \in 1..Len(lockQueue') |-> lockQueue'[i].ticket],
                            LAMBDA t : t \notin old)
    IN  callLog' = SeqMinus(callLog, old \ new) \o joined

\* the calls made before the call t and not finished
Earlier(t) ==
    {callLog[i] : i \in {j \in 1..Len(callLog) :
                            \A k \in 1..j : callLog[k] # t}}

(***************************************************************************)
(* The steps of the application.                                           *)
(***************************************************************************)
\* the photos passed to addPhoto after this step: a call of addPhoto adds
\* an action with its photos to the lock's queue
Handed ==
    IF Len(lockQueue') > Len(lockQueue)
          /\ lockQueue'[Len(lockQueue')].kind = "addPhoto"
    THEN issued \o lockQueue'[Len(lockQueue')].batch
    ELSE issued

\* React runs the effect after a render with a new photos array
Effect ==
    /\ photosDirty
    /\ photosDirty' = FALSE
    /\ PhotosEffect
    /\ LET started == Len(jobs') - Len(jobs)
       IN  /\ ev' = [act |-> "invalidate", started |-> started,
                     inv |-> invInRun, running |-> Len(jobs) > 0]
           /\ invInRun' = IF started > 0 THEN 0
                          ELSE IF Len(jobs) > 0 THEN invInRun + 1 ELSE invInRun
           /\ owed' = (started = 0)
    /\ LogCalls
    /\ issued' = Handed
    /\ UNCHANGED <<reasmVars, photos, keys, rejected, listenVars,
                   sessionHist, askedWith, pushLog, failHist, histVars, active, lastStart>>

\* the i-th invocation of the job returns: it had nothing to add, or the
\* addPhoto call it awaits has finished; the scheduler then completes the run
JobDone(i) ==
    /\ i \in 1..Len(jobs)
    /\ jobs[i].await \notin Tickets(lockQueue)
    /\ JobReturn(i)
    /\ nJobFailed' = IF jobs[i].await \in rejected THEN nJobFailed + 1
                     ELSE nJobFailed
    /\ LET started == Len(jobs') - (Len(jobs) - 1)
       IN  /\ ev' = [act |-> "finish", started |-> started,
                     inv |-> invInRun, running |-> TRUE]
           /\ invInRun' = 0
           /\ owed' = IF started > 0 THEN FALSE ELSE owed
    /\ LogCalls
    /\ issued' = Handed
    /\ UNCHANGED <<reasmVars, windowVars, processedPhotos, keys, listenVars,
                   sessionHist, askedWith, pushLog, nActFailed, lastFail, histVars, active,
                   lastStart>>

\* the lock runs addPhoto's action, which fails or not
RunAddPhotoAction(fails) ==
        /\ fails => nActFailed < MaxActionFail
        /\ AgentAddPhotoAction(fails)
        /\ lastStart' = [ticket |-> LockHolder(lockQueue).ticket,
                         earlier |-> Earlier(LockHolder(lockQueue).ticket),
                         running |-> active]
        /\ appended' = appended \o LockHolder(lockQueue).batch
        /\ nActFailed' = IF fails THEN nActFailed + 1 ELSE nActFailed
        /\ lastFail' = IF fails
                       THEN [ticket |-> LockHolder(lockQueue).ticket,
                             behind |-> [i \in 1..(Len(lockQueue) - 1) |->
                                            lockQueue[i + 1].ticket]]
                       ELSE lastFail
        /\ LogCalls
        /\ UNCHANGED <<reasmVars, windowVars, jobVars, syncVars, keys,
                       listenVars, queryFailed, lastOutcome, callHist,
                       nJobFailed, histVars,
                       syncHist, active>>

RunAddPhoto == \E fails \in BOOLEAN : RunAddPhotoAction(fails)

\* the same with listeners that do not throw
RunAddPhotoOk == RunAddPhotoAction(FALSE)

\* a caller of the Agent's interface calls addPhoto(batch)
AddPhotoCall(batch) ==
    /\ AgentAddPhoto(batch)
    /\ IF Len(lockQueue') > Len(lockQueue)
       THEN /\ LogCalls
            /\ UNCHANGED lastStart
       ELSE \* the action ran inside the call
            /\ lastStart' = [ticket |-> NewTicket,
                             earlier |-> {callLog[i] : i \in 1..Len(callLog)},
                             running |-> active]
            /\ UNCHANGED callLog
    /\ issued' = Handed
    /\ UNCHANGED <<reasmVars, windowVars, jobVars, syncVars, keys, rejected, listenVars,
                   sessionHist, askedWith, pushLog, failHist, histVars,
                   syncHist, active>>

\* the user picks a model
SetModel(m) ==
    /\ AgentSetModel(m)
    /\ UNCHANGED <<reasmVars, windowVars, jobVars, syncVars, keys, rejected, listenVars,
                   sessionHist, callHist, failHist, histVars,
                   syncHist, lockHist>>

\* the user submits a question
AnswerCall ==
    /\ AgentAnswer
    /\ nasked' = nasked + 1
    /\ askedWith' = IF Len(lockQueue') > Len(lockQueue) THEN issued
                    ELSE askedWith
    /\ LogCalls
    /\ UNCHANGED <<reasmVars, windowVars, jobVars, syncVars, keys, rejected,
                   listenVars, sessionHist, issued, pushLog, failHist, reasmHist,
                   nfailed, lastPush, syncHist, active, lastStart>>

\* the lock runs answer's action
RunAnswer ==
    /\ AgentAnswerAction
    /\ lastStart' = [ticket |-> LockHolder(lockQueue).ticket,
                     earlier |-> Earlier(LockHolder(lockQueue).ticket),
                     running |-> active]
    /\ active' = IF Len(lockQueue') = Len(lockQueue)
                 THEN active \cup {LockHolder(lockQueue).ticket}
                 ELSE active
    /\ LogCalls
    /\ UNCHANGED <<reasmVars, windowVars, jobVars, syncVars, keys, rejected,
                   listenVars, sessionHist, callHist, failHist, histVars, syncHist>>

\* the backend call of the running answer settles
BackendDone(outcome) ==
    /\ AgentBackendReturn(outcome)
    /\ active' = active \ {LockHolder(lockQueue).ticket}
    /\ queryFailed' = (queryFailed \/ outcome # "ok")
    /\ lastOutcome' = outcome
    /\ LogCalls
    /\ UNCHANGED <<reasmVars, windowVars, jobVars, syncVars, keys, rejected,
                   listenVars, appended, callHist, failHist, histVars,
                   syncHist, lastStart>>

(***************************************************************************)
(* The state after DeviceView has mounted: nothing received, the effect on *)
(* [photos] due for the empty array.                                       *)
(***************************************************************************)
Init ==
    /\ previousChunk = Idle
    /\ buffer = <<>>
    /\ rotating = <<>>
    /\ photoSeq = 0
    /\ photos = <<>>
    /\ photosDirty = TRUE
    /\ processedPhotos = <<>>
    /\ processed = 0
    /\ jobs = <<>>
    /\ syncRunning = FALSE
    /\ syncPending = FALSE
    /\ lockQueue = <<>>
    /\ agentPhotos = <<>>
    /\ agentState = InitialState
    /\ stateCopy = agentState
    /\ keys \in [openai : BOOLEAN, groq : BOOLEAN]
    /\ nrec = 0
    /\ lastRec = [id |-> null, data |-> <<>>]
    /\ pre = [previousChunk |-> Idle, buffer |-> <<>>]
    /\ lastEmit = <<>>
    /\ xfer = NoXfer
    /\ xfer2 = NoXfer
    /\ ev = [act |-> "none", started |-> 0, inv |-> 0, running |-> FALSE]
    /\ invInRun = 0
    /\ owed = FALSE
    /\ callLog = <<>>
    /\ active = {}
    /\ lastStart = [ticket |-> 0, earlier |-> {}, running |-> {}]
    /\ nasked = 0
    /\ nfailed = 0
    /\ lastPush = [before |-> <<>>, pushed |-> <<>>]
    /\ rejected = {}
    /\ stateListeners = <<>>
    /\ iter = NoIter
    /\ appended = <<>>
    /\ queryFailed = FALSE
    /\ lastOutcome = "none"
    /\ issued = <<>>
    /\ askedWith = <<>>
    /\ pushLog = <<>>
    /\ nActFailed = 0
    /\ lastFail = [ticket |-> 0, behind |-> <<>>]
    /\ nJobFailed = 0
    /\ detached = [all |-> {}, mid |-> {}]
    /\ lastCalled = [listener |-> 0, stale |-> FALSE]

\* the configuration in which every backend has its key
AllKeys == [openai |-> TRUE, groq |-> TRUE]

InitKeys == Init /\ keys = AllKeys

(***************************************************************************)
(* The reassembler fed with arbitrary records.                             *)
(***************************************************************************)

NextReasm ==
    \E id \in ChunkIds, data \in Payloads :
        nrec < MaxRecords /\ Deliver(id, data)

SpecReasm == InitKeys /\ [][NextReasm]_vars

(***************************************************************************)
(* The device sends whole photos (START, END), one after the other, at    *)
(* most max of them.                                                       *)
(***************************************************************************)
DevicePhotos(max, flying) ==
    IF previousChunk = Idle
    THEN photoSeq < max /\ Notification(0, <<255>>)
    ELSE Len(rotating) < flying /\ Notification(null, <<>>)

DevicePhoto(max) == DevicePhotos(max, MaxRotating)

(***************************************************************************)
(* The photo window: the device sends photos, the rotations settle in any  *)
(* order or fail.                                                          *)
(***************************************************************************)
NextWindow ==
    \/ DevicePhoto(MaxPhotos)
    \/ \E i \in 1..Len(rotating) : RotateDone(i)
    \/ \E i \in 1..Len(rotating) : nfailed < MaxRotateFail /\ RotateFail(i)

SpecWindow == InitKeys /\ [][NextWindow]_vars

(***************************************************************************)
(* The same with several rotations in flight, which settle in any order.   *)
(***************************************************************************)
NextOrder ==
    \/ DevicePhotos(MaxOrderPhotos, MaxInFlight)
    \/ \E i \in 1..Len(rotating) : RotateDone(i)
    \/ \E i \in 1..Len(rotating) : nfailed < MaxRotateFail /\ RotateFail(i)

SpecOrder == InitKeys /\ [][NextOrder]_vars

(***************************************************************************)
(* Ingestion: the photos of the window reach the Agent through the effect, *)
(* the scheduler and the job.                                              *)
(***************************************************************************)
NextIngest ==
    \/ DevicePhoto(MaxPhotos)
    \/ \E i \in 1..Len(rotating) : RotateDone(i)
    \/ Effect
    \/ \E i \in 1..Len(jobs) : JobDone(i)
    \/ RunAddPhoto

SpecIngest == InitKeys /\ [][NextIngest]_vars

(***************************************************************************)
(* The scheduler at work: photos arrive, rotations settle or fail, and the *)
(* user asks questions that hold the lock while the backend is called.     *)
(***************************************************************************)
SyncOutcomes == {"ok", "network"}

Settle == \E o \in SyncOutcomes : BackendDone(o)

Return == \E i \in 1..Len(jobs) : JobDone(i)

NextSync ==
    \/ DevicePhoto(MaxSyncPhotos)
    \/ \E i \in 1..Len(rotating) : RotateDone(i)
    \/ \E i \in 1..Len(rotating) : nfailed < MaxRotateFail /\ RotateFail(i)
    \/ Effect
    \/ Return
    \/ RunAddPhotoOk
    \/ (nasked < MaxQuestions /\ AnswerCall)
    \/ RunAnswer
    \/ Settle

SpecSync == InitKeys /\ [][NextSync]_vars

\* promise continuations are always run, and every backend call settles
SpecSyncFair ==
    /\ SpecSync
    /\ WF_vars(Return)
    /\ WF_vars(RunAddPhotoOk)
    /\ WF_vars(RunAnswer)
    /\ WF_vars(Settle)

(***************************************************************************)
(* Failures: a listener may throw while addPhoto's action notifies, which  *)
(* fails the action, the addPhoto call and the run of the job awaiting it. *)
(***************************************************************************)
NextFail ==
    \/ DevicePhoto(MaxFailPhotos)
    \/ \E i \in 1..Len(rotating) : RotateDone(i)
    \/ Effect
    \/ Return
    \/ RunAddPhoto
    \/ (nasked < MaxQuestions /\ AnswerCall)
    \/ RunAnswer
    \/ Settle

SpecFail == InitKeys /\ [][NextFail]_vars

SpecFailFair ==
    /\ SpecFail
    /\ WF_vars(Return)
    /\ WF_vars(RunAddPhoto)
    /\ WF_vars(RunAnswer)
    /\ WF_vars(Settle)

(***************************************************************************)
(* Ingestion, from the push on: rotated photos are pushed to the window,   *)
(* the effect runs after one push or after several, addPhoto's action may  *)
(* fail.                                                                   *)
(***************************************************************************)
\* a rotation resolves and its then pushes the photo, DeviceView.tsx:57-61
PushPhoto ==
    /\ photoSeq < MaxPhotos
    /\ LET rotated == RotateImage(Photo(photoSeq + 1, <<255>>), 270)
       IN  /\ SetPhotos(rotated)
           /\ lastPush' = [before |-> photos, pushed |-> <<rotated>>]
           /\ pushLog' = Append(pushLog, rotated.id)
    /\ photoSeq' = photoSeq + 1
    /\ UNCHANGED <<previousChunk, buffer, rotating, jobVars, syncVars,
                   agentVars, keys, rejected, listenVars, sessionHist, issued,
                   askedWith, failHist, reasmHist, nasked, nfailed, syncHist,
                   lockHist>>

NextHand ==
    \/ PushPhoto
    \/ Effect
    \/ \E i \in 1..Len(jobs) : JobDone(i)
    \/ RunAddPhoto

SpecHand == InitKeys /\ [][NextHand]_vars

(***************************************************************************)
(* The Agent alone, called through its interface.                          *)
(***************************************************************************)
\* the photos passed to addPhoto and not yet appended
RECURSIVE QueuedFrom(_, _)
QueuedFrom(q, i) ==
    IF i > Len(q) THEN 0
    ELSE (IF q[i].kind = "addPhoto" THEN Len(q[i].batch) ELSE 0)
         + QueuedFrom(q, i + 1)

Queued(q) == QueuedFrom(q, 1)

\* the batches a caller passes: one photo or two
BatchSizes == {1, 2}

NextAgent ==
    \/ \E n \in BatchSizes :
          LET have == Len(agentPhotos) + Queued(lockQueue)
          IN  /\ have + n <= MaxAgentPhotos
              /\ Len(lockQueue) < MaxWaiting
              /\ AddPhotoCall([i \in 1..n |->
                                  RotateImage(Photo(have + i, <<255>>), 270)])
    \/ \E m \in Models : SetModel(m)
    \/ (nasked < MaxAsks /\ AnswerCall)
    \/ RunAddPhotoOk
    \/ RunAnswer
    \/ \E o \in Outcomes : BackendDone(o)

SpecAgent == Init /\ [][NextAgent]_vars

(***************************************************************************)
(* The listeners: components that call use() mount and unmount, between    *)
(* notifications or in the render caused by a listener that #notify has    *)
(* just called; the user picks models, which notifies.                     *)
(***************************************************************************)
Listeners == 1..MaxListeners

\* no #notify is running, or it has called a listener and not returned
MayRender == ~iter.on \/ iter.pos > 1

otherVars == <<reasmVars, windowVars, jobVars, syncVars, keys, rejected,
               sessionHist, callHist, failHist, histVars, syncHist, lockHist>>

Use(l) ==
    /\ MayRender
    /\ l \notin detached.all
    /\ \A i \in 1..Len(stateListeners) : stateListeners[i] # l
    /\ AgentUse(l)
    /\ UNCHANGED <<agentVars, detached, lastCalled, otherVars>>

Cleanup(l) ==
    /\ MayRender
    /\ \E i \in 1..Len(stateListeners) : stateListeners[i] = l
    /\ AgentCleanup(l)
    /\ detached' = [all |-> detached.all \cup {l},
                    mid |-> IF iter.on THEN detached.mid \cup {l}
                            ELSE detached.mid]
    /\ UNCHANGED <<agentVars, lastCalled, otherVars>>

SetModelNotify(m) ==
    /\ ~iter.on
    /\ AgentSetModelNotify(m)
    /\ UNCHANGED <<detached, lastCalled, otherVars>>

CallListener ==
    /\ AgentCallListener
    /\ lastCalled' = [listener |-> iter.array[iter.pos],
                      stale |-> iter.array[iter.pos] \in iter.gone]
    /\ UNCHANGED <<agentVars, detached, otherVars>>

NotifyEnd ==
    /\ AgentNotifyEnd
    /\ UNCHANGED <<agentVars, detached, lastCalled, otherVars>>

NextListeners ==
    \/ \E l \in Listeners : Use(l)
    \/ \E l \in Listeners : Cleanup(l)
    \/ \E m \in Models : SetModelNotify(m)
    \/ CallListener
    \/ NotifyEnd

SpecListeners == InitKeys /\ [][NextListeners]_vars

(***************************************************************************)
(* The session: the user asks questions and picks models while single      *)
(* photos are added; any of the keys may be missing.                       *)
(***************************************************************************)
SettleAny == \E o \in Outcomes : BackendDone(o)

NextSession ==
    \/ LET have == Len(agentPhotos) + Queued(lockQueue)
       IN  /\ have < MaxSessionPhotos
           /\ AddPhotoCall(<<RotateImage(Photo(have + 1, <<255>>), 270)>>)
    \/ \E m \in Models : SetModel(m)
    \/ (nasked < MaxAsks /\ AnswerCall)
    \/ RunAddPhotoOk
    \/ RunAnswer
    \/ SettleAny

SpecSession == Init /\ [][NextSession]_vars

\* the lock runs the action at its head, and every backend call settles
SpecSessionFair ==
    /\ SpecSession
    /\ WF_vars(RunAddPhotoOk)
    /\ WF_vars(RunAnswer)
    /\ WF_vars(SettleAny)

(***************************************************************************)
(* Properties of the reassembler, checked under SpecReasm.                 *)
(***************************************************************************)
\* the last onChunk call emitted exactly the photo b
EmittedOnly(b) == Len(lastEmit) = 1 /\ lastEmit[1].bytes = b

\* C1 as stated: every valid transfer (START id 0 at the idle reassembler,
\* ids 1, 2, ... in order, END) emits exactly one Photo, at its END and not
\* before, equal to the concatenation of its payloads.
C1_EveryValidTransferEmits ==
    /\ (xfer.status = "open" /\ xfer.fromIdle) => xfer.emits = 0
    /\ (xfer.status = "done" /\ xfer.fromIdle) =>
            (xfer.emits = 1 /\ EmittedOnly(xfer.bytes))

\* C1 amended: a valid transfer whose payloads are not all empty emits
\* exactly one Photo, at its END and not before, equal to the concatenation
\* of its payloads in arrival order; a valid transfer whose payloads are all
\* empty emits no Photo.
C1_NonEmptyValidTransferEmits ==
    /\ (xfer.status = "open" /\ xfer.fromIdle) => xfer.emits = 0
    /\ (xfer.status = "done" /\ xfer.fromIdle /\ xfer.bytes # <<>>) =>
            (xfer.emits = 1 /\ EmittedOnly(xfer.bytes))
    /\ (xfer.status = "done" /\ xfer.fromIdle /\ xfer.bytes = <<>>) =>
            (xfer.emits = 0 /\ lastEmit = <<>>)

\* a transfer of three chunks with different payloads has just ended
C1_Witness ==
    /\ xfer.status = "done" /\ xfer.fromIdle
    /\ xfer.next = 3 /\ Len(xfer.bytes) = 3
    /\ xfer.bytes[1] # xfer.bytes[2]
    /\ lastEmit # <<>>

\* C2: once a data record breaks the sequence of a transfer, no Photo is
\* emitted for that transfer (its later chunks and its END are discarded),
\* the reassembler is idle with an empty buffer, and the next START (id 0)
\* begins a new transfer holding that START's payload only.
C2_DiscontinuityAborts ==
    /\ xfer.status = "broken" =>
            (previousChunk = Idle /\ buffer = <<>> /\ xfer.emits = 0)
    /\ (xfer.status = "open" /\ xfer.afterBreak /\ xfer.next = 1) =>
            (previousChunk = 0 /\ buffer = xfer.bytes)

\* a START has been accepted after a transfer was broken and its END dropped
C2_Witness ==
    /\ xfer.status = "open" /\ xfer.afterBreak
    /\ xfer.next = 1 /\ xfer.bytes # <<>>
    /\ pre.previousChunk = Idle /\ nrec >= 4

\* C3 as stated: a START that arrives while a transfer is in progress begins
\* a second transfer cleanly; its chunks 1, 2, ... and END emit a Photo equal
\* to the concatenation of the second transfer's payloads.
C3_SecondStartBeginsTransfer ==
    (xfer2.status = "done" /\ xfer2.bytes # <<>>) =>
        (xfer2.emits = 1 /\ EmittedOnly(xfer2.bytes))

\* C3 amended: a START that arrives while a transfer is in progress discards
\* the first transfer's partial buffer and is itself dropped; the reassembler
\* is idle with an empty buffer, and the second transfer's chunks 1, 2, ...
\* and END are discarded without emitting a Photo.
C3_SecondStartIsDropped ==
    xfer2.status \in {"open", "done"} =>
        (previousChunk = Idle /\ buffer = <<>> /\ xfer2.emits = 0)

\* START, 1, START, 1, END has been delivered
C3_Witness ==
    /\ xfer2.status = "done" /\ xfer2.next = 2 /\ xfer2.bytes # <<>>
    /\ xfer.status = "broken" /\ xfer.next = 2

\* C4: an END received while idle, or mid-transfer with an empty buffer,
\* emits no Photo; no emitted Photo is empty.
C4_NoEmptyPhoto ==
    /\ (nrec > 0 /\ lastRec.id = null
            /\ (pre.previousChunk = Idle \/ pre.buffer = <<>>)) =>
        lastEmit = <<>>
    /\ \A i \in 1..Len(rotating) : rotating[i].bytes # <<>>

\* an END has arrived mid-transfer with an empty buffer
C4_Witness ==
    /\ nrec > 0 /\ lastRec.id = null
    /\ pre.previousChunk # Idle /\ pre.buffer = <<>>

(***************************************************************************)
(* Properties of the photo window, checked under SpecWindow.               *)
(***************************************************************************)
\* C5: the window never holds more than 10 photos; a push into a window of
\* 10 removes exactly the oldest photo and keeps the other 9 in their order,
\* followed by the new photo; a push into a smaller window removes nothing.
C5_WindowKeepsLastTen ==
    /\ Len(photos) <= KeepLast + 1
    /\ lastPush.pushed # <<>> =>
          photos = (IF Len(lastPush.before) = KeepLast + 1
                    THEN Tail(lastPush.before)
                    ELSE lastPush.before) \o lastPush.pushed

\* a photo has been pushed into a window that held 10
C5_Witness ==
    /\ Len(lastPush.before) = KeepLast + 1
    /\ lastPush.pushed # <<>>
    /\ Len(photos) = KeepLast + 1
    /\ photos[1] = lastPush.before[2]

(***************************************************************************)
(* Properties of the scheduler, checked under SpecSync and SpecSyncFair.   *)
(***************************************************************************)
\* C6: at most one invocation of the ingestion job is executing at any time.
C6_JobNeverConcurrent == Len(jobs) <= 1

\* two invalidate() calls have arrived during the one executing run
C6_Witness == Len(jobs) = 1 /\ invInRun >= 2 /\ syncPending

\* C7: invalidate() calls made while a run is executing start no run; when
\* that run completes, exactly one follow-up run starts if there was at least
\* one such call, whatever their number, and none otherwise, after which no
\* run is executing.
C7_InvalidationsCoalesce ==
    /\ (ev.act = "invalidate" /\ ev.running) => ev.started = 0
    /\ ev.act = "finish" => ev.started = (IF ev.inv >= 1 THEN 1 ELSE 0)
    /\ (ev.act = "finish" /\ ev.inv = 0) => Len(jobs) = 0

\* a run during which invalidate() was called twice has completed and one
\* follow-up run has started
C7_Witness == ev.act = "finish" /\ ev.inv >= 2 /\ ev.started = 1

\* C8: every invalidate() call is eventually followed by a run of the job
\* that starts no earlier than the call; a call made when no run is active
\* begins a run at once.
C8_InvalidateLeadsToRun ==
    /\ owed ~> ~owed
    /\ []((ev.act = "invalidate" /\ ~ev.running) => (ev.started = 1 /\ ~owed))

\* an invalidate() call made during a run has been served by the follow-up
\* run, which found a photo to ingest
C8_Witness ==
    /\ ev.act = "finish" /\ ev.inv = 1 /\ ev.started = 1 /\ ~owed
    /\ Len(jobs) = 1 /\ jobs[1].await # 0

(***************************************************************************)
(* Properties of the ingestion, checked under SpecIngest.                  *)
(***************************************************************************)
\* nothing is in flight: no transfer, no rotation, no effect due, no run of
\* the job, no action waiting for the lock
Quiescent ==
    /\ previousChunk = Idle
    /\ rotating = <<>>
    /\ ~photosDirty
    /\ jobs = <<>>
    /\ lockQueue = <<>>

\* C9: every photo pushed into the window is handed to Agent.addPhoto by a
\* run of the job, also when it arrives after the window has reached 10
\* photos: once nothing is in flight, every photo of the window is among the
\* Agent's photos.
C9_EveryWindowPhotoIngested ==
    Quiescent =>
        \A i \in 1..Len(photos) :
            \E j \in 1..Len(agentPhotos) : agentPhotos[j] = photos[i]

(***************************************************************************)
(* Properties of the lock, checked under SpecAgent.                        *)
(***************************************************************************)
\* C10: the actions passed to inLock run one at a time and in call order: an
\* action starts only when every call made before it has finished and no
\* other action is running, and the running action is the earliest
\* unfinished call.
C10_LockSerializesInCallOrder ==
    /\ lastStart.earlier = {}
    /\ lastStart.running = {}
    /\ Cardinality(active) <= 1
    /\ active # {} => (callLog # <<>> /\ active = {callLog[1]})

\* an answer is waiting for its backend while two addPhoto calls made after
\* it wait for the lock
C10_Witness ==
    /\ Len(lockQueue) >= 3
    /\ lockQueue[1].st = "backend"
    /\ active = {lockQueue[1].ticket}
    /\ lastStart.ticket = lockQueue[1].ticket
    /\ lockQueue[2].kind = "addPhoto" /\ lockQueue[3].kind = "addPhoto"

(***************************************************************************)
(* Properties of a failing action of the lock, checked under SpecFailFair. *)
(***************************************************************************)
\* C11: when an action passed to inLock fails, the failure goes to the
\* caller of that action only (here the run of the job that awaits it), the
\* lock is released with the waiting actions kept in their order, and
\* every action that waits for the lock gets to run.
C11_FailureReleasesLock ==
    /\ [][nActFailed' # nActFailed =>
            /\ lockQueue' = Tail(lockQueue)
            /\ rejected' \ rejected \subseteq {lockQueue[1].ticket}
            /\ \A i \in 1..Len(jobs) :
                  jobs[i].await = lockQueue[1].ticket =>
                      jobs[i].await \in rejected']_vars
    /\ [](rejected \subseteq {jobs[i].await : i \in 1..Len(jobs)})
    /\ ((nActFailed > 0 /\ lockQueue # <<>>) ~> (lockQueue = <<>>))

\* an addPhoto action failed while an answer waited behind it, and the
\* answer has run and stored its answer since
C11_Witness ==
    /\ nActFailed > 0
    /\ lastFail.behind # <<>>
    /\ lockQueue = <<>>
    /\ agentState.answer # Undefined
    /\ ~agentState.loading

(***************************************************************************)
(* Properties of answer(), checked under SpecSession.  A step with         *)
(* nasked' # nasked is one call of answer().                               *)
(***************************************************************************)
\* C12: a call of answer() made while loading is true changes no field of
\* the state, queues no action on the lock and so causes no backend call,
\* whatever addPhoto and setModel calls came before it.
C12_AnswerWhileLoadingIsNoOp ==
    [][(nasked' # nasked /\ agentState.loading) =>
          UNCHANGED <<agentState, stateCopy, lockQueue, agentPhotos>>]_vars

\* the selected backend lacks its key
Unconfigured ==
    \/ agentState.selectedModel = "openai-vision" /\ ~keys.openai
    \/ agentState.selectedModel = "groq-llama" /\ ~keys.groq

\* the configuration message of the selected backend
ConfigurationMessage ==
    IF agentState.selectedModel = "openai-vision"
    THEN <<"OpenAI API key not configured.">>
    ELSE <<"Groq API key not configured.">>

\* C13: when the selected backend lacks its key, answer() stores that
\* backend's configuration message in error and leaves answer unset; it
\* does not set loading, passes no action to the lock (so no backend is
\* called) and publishes that state, with or without photos.
C13_ConfigurationErrorFailsFast ==
    [][(nasked' # nasked /\ Unconfigured) =>
          /\ agentState'.error = ConfigurationMessage
          /\ agentState'.answer = Undefined
          /\ agentState'.loading = agentState.loading
          /\ stateCopy' = agentState'
          /\ lockQueue' = lockQueue
          /\ agentPhotos' = agentPhotos]_vars

\* the Groq key is missing, photos have been added, and answer() has stored
\* Groq's configuration message without entering loading
C13_Witness ==
    /\ Len(agentPhotos) > 0
    /\ agentState.selectedModel = "groq-llama"
    /\ agentState.error = <<"Groq API key not configured.">>
    /\ agentState.answer = Undefined
    /\ ~agentState.loading
    /\ nasked = 1
    /\ lockQueue = <<>>

\* the lock runs the action of a queued answer()
RunAnswerStep ==
    /\ lockQueue # <<>>
    /\ lockQueue[1].kind = "answer"
    /\ lockQueue[1].st = "queued"
    /\ (lockQueue' = <<>> \/ lockQueue'[1] # lockQueue[1])

\* C14: when answer's action runs with no photo accumulated, the query
\* completes at once, for every selected model: answer is the fixed
\* advisory message, error is unset, loading is false, the state is
\* published, and the action leaves the lock without calling a backend.
C14_NoPhotosGivesAdvisory ==
    [][(RunAnswerStep /\ Len(agentPhotos) = 0) =>
          /\ agentState'.answer = Advisory
          /\ agentState'.error = Undefined
          /\ ~agentState'.loading
          /\ stateCopy' = agentState'
          /\ lockQueue' = Tail(lockQueue)
          /\ agentPhotos' = agentPhotos]_vars

\* the advisory answer was given with the local model selected
C14_Witness ==
    /\ agentPhotos = <<>>
    /\ lockQueue = <<>>
    /\ nasked = 1
    /\ agentState.selectedModel = "ollama-moondream"
    /\ agentState.answer = Advisory
    /\ agentState.error = Undefined
    /\ ~agentState.loading

\* the action of an answer() leaves the lock: the query completes
QueryCompletes ==
    /\ lockQueue # <<>>
    /\ lockQueue[1].kind = "answer"
    /\ (lockQueue' = <<>> \/ lockQueue'[1].ticket # lockQueue[1].ticket)

\* C15: answer and error are never both set, and when a query completes
\* exactly one of them is set.
C15_AnswerXorError ==
    /\ [](~(agentState.answer # Undefined /\ agentState.error # Undefined))
    /\ [][QueryCompletes =>
            (agentState'.answer # Undefined) # (agentState'.error # Undefined)]_vars

\* the second of two queries has failed: error is set and answer is not
C15_Witness ==
    /\ nasked = 2
    /\ queryFailed
    /\ lockQueue = <<>>
    /\ ~agentState.loading
    /\ agentState.error # Undefined
    /\ agentState.answer = Undefined

\* C16: when answer() starts a query (loading goes from false to true), the
\* state it publishes has neither an answer nor an error.
C16_QueryStartClearsBoth ==
    [][(nasked' # nasked /\ ~agentState.loading /\ agentState'.loading) =>
          /\ stateCopy'.loading
          /\ stateCopy'.answer = Undefined
          /\ stateCopy'.error = Undefined]_vars

(***************************************************************************)
(* Properties of failed queries, checked under SpecSessionFair.            *)
(***************************************************************************)
\* the backend call of the running query fails
QueryFails ==
    /\ QueryCompletes
    /\ lockQueue[1].st = "backend"
    /\ agentState'.error # Undefined

QueryQueued ==
    \E i \in 1..Len(lockQueue) :
        lockQueue[i].kind = "answer" /\ lockQueue[i].st = "queued"

QueryAtBackend ==
    lockQueue # <<>> /\ lockQueue[1].kind = "answer"
                     /\ lockQueue[1].st = "backend"

\* C17: a query whose backend call fails leaves loading false and leaves
\* the lock; after a failed query a call of answer() with a configured
\* backend is accepted, and the accepted query reaches its backend call or
\* the advisory answer.
C17_FailedQueryDoesNotBlock ==
    /\ [][QueryFails => (~agentState'.loading
                          /\ lockQueue' = Tail(lockQueue))]_vars
    /\ [][(queryFailed /\ nasked' # nasked /\ ~Unconfigured
                       /\ ~agentState.loading) =>
            /\ agentState'.loading
            /\ Len(lockQueue') = Len(lockQueue) + 1
            /\ lockQueue'[Len(lockQueue')].kind = "answer"]_vars
    /\ ((queryFailed /\ QueryQueued) ~>
            (QueryAtBackend \/ agentState.answer = Advisory))

\* after a failed query the next one is waiting for its backend
C17_Witness ==
    /\ queryFailed
    /\ nasked = 2
    /\ QueryAtBackend
    /\ agentState.loading

\* the backend call of the running query settles
BackendStep ==
    /\ QueryCompletes
    /\ lockQueue[1].st = "backend"

\* C18: no step of answer() changes the photos of the Agent (the call up to
\* the lock on its three paths, its action, the settling of its backend
\* call): the photos are always the ones addPhoto's actions have appended.
C18_AnswerKeepsPhotos ==
    /\ [][(nasked' # nasked \/ RunAnswerStep \/ BackendStep) =>
            agentPhotos' = agentPhotos]_vars
    /\ [](agentPhotos = appended)

\* a query has failed and the photos are all there
C18_Witness ==
    /\ queryFailed
    /\ agentState.error # Undefined
    /\ ~agentState.loading
    /\ Len(agentPhotos) = MaxSessionPhotos
    /\ agentPhotos = appended

(***************************************************************************)
(* Properties of a failing run of the job, checked under SpecFailFair.     *)
(***************************************************************************)
\* C19: a run of the job that fails is completed like any other: after a
\* failed run the scheduler is marked running only while a run executes,
\* an invalidate() made with no run active starts a run in the same step,
\* and every invalidate() is followed by a run.
C19_FailedRunDoesNotStopScheduler ==
    /\ [](nJobFailed > 0 => (syncRunning <=> jobs # <<>>))
    /\ [](nJobFailed > 0 => (syncPending => syncRunning))
    /\ []((nJobFailed > 0 /\ ev.act = "invalidate" /\ ~ev.running) =>
              ev.started = 1)
    /\ ((nJobFailed > 0 /\ owed) ~> ~owed)

\* a run has failed, and the invalidate() made after it has started a run
C19_Witness ==
    /\ nJobFailed > 0
    /\ ev.act = "invalidate"
    /\ ~ev.running
    /\ ev.started = 1
    /\ Len(jobs) = 1

(***************************************************************************)
(* Properties of the listeners, checked under SpecListeners.               *)
(***************************************************************************)
\* C20: a listener whose cleanup has run is not called by any notification
\* that begins later, also when the cleanup ran while a notification was
\* calling the listeners; and it is not registered any more.
C20_DetachedListenerNotCalledLater ==
    /\ ~lastCalled.stale
    /\ \A i \in 1..Len(stateListeners) :
          stateListeners[i] \notin detached.all
    /\ (iter.on /\ iter.pos = 1) =>
          \A i \in 1..Len(iter.array) : iter.array[i] \notin detached.all

\* a listener was detached while a notification was calling the listeners,
\* and a notification begun after that has called all its listeners
C20_Witness ==
    /\ iter.on
    /\ iter.gone \cap detached.mid # {}
    /\ Len(iter.array) > 0
    /\ iter.pos > Len(iter.array)
    /\ lastCalled.listener = iter.array[Len(iter.array)]

(***************************************************************************)
(* More properties of the reassembler, checked under SpecReasm.            *)
(***************************************************************************)
\* C21: a data record that arrives mid-transfer with an id other than the
\* expected one is dropped, also when its id is 0: the reassembler is idle
\* with an empty buffer and nothing is emitted, so the record is not taken
\* as a START and its payload is in no later Photo; the Photo of the next
\* transfer holds that transfer's payloads only.
C21_MismatchedChunkIsDropped ==
    /\ (nrec > 0 /\ lastRec.id # null /\ pre.previousChunk # Idle
            /\ lastRec.id # pre.previousChunk + 1) =>
        (previousChunk = Idle /\ buffer = <<>> /\ lastEmit = <<>>)
    /\ (xfer.status = "done" /\ xfer.afterBreak /\ xfer.bytes # <<>>) =>
        EmittedOnly(xfer.bytes)

\* START, 1 and then a record with id 0 and a payload have been delivered
C21_Witness ==
    /\ nrec = 3
    /\ lastRec.id = 0 /\ lastRec.data # <<>>
    /\ pre.previousChunk = 1 /\ pre.buffer # <<>>
    /\ xfer.status = "broken"

(***************************************************************************)
(* Order of the window, checked under SpecOrder.  The id of a photo is the *)
(* rank of its END among the ENDs that completed a transfer.               *)
(***************************************************************************)
\* C22: photos enter the window in arrival order, whatever the order in
\* which the rotations settle: a photo whose transfer completed earlier is
\* never placed after one whose transfer completed later.
C22_WindowInArrivalOrder ==
    \A i, j \in 1..Len(photos) : i < j => photos[i].id < photos[j].id

(***************************************************************************)
(* More properties of the lock, checked under SpecAgent.                   *)
(***************************************************************************)
\* C23: while the action of an answer() waits for its backend, no addPhoto
\* action appends: no step taken in that time changes the photos of the
\* Agent, which stay the ones the backend was called with.
C23_NoAppendDuringQuery ==
    /\ [][QueryAtBackend => agentPhotos' = agentPhotos]_vars
    /\ [](QueryAtBackend => LockHolder(lockQueue).batch = agentPhotos)

\* addPhoto has been called while a query waits for its backend, and its
\* photos wait for the lock
C23_Witness ==
    /\ QueryAtBackend
    /\ Len(lockQueue) = 2
    /\ lockQueue[2].kind = "addPhoto"
    /\ Len(lockQueue[2].batch) = 2
    /\ Len(agentPhotos) = 1

(***************************************************************************)
(* More properties of the session, checked under SpecSession.              *)
(***************************************************************************)
\* the lock holder takes a step: its action runs, or its backend settles
LockStep ==
    /\ lockQueue # <<>>
    /\ (lockQueue' = <<>> \/ lockQueue'[1] # lockQueue[1])

\* C24: the photos of the Agent and the fields answer, error and loading
\* are written only by an action that holds the lock: every step that
\* changes one of them is a step of the lock holder.
C24_WritesOnlyUnderLock ==
    [][(\/ agentPhotos' # agentPhotos
        \/ agentState'.answer # agentState.answer
        \/ agentState'.error # agentState.error
        \/ agentState'.loading # agentState.loading) => LockStep]_vars

\* C25: the selected model does not change while loading is true.
C25_NoSwitchWhileLoading ==
    [][agentState.loading =>
          agentState'.selectedModel = agentState.selectedModel]_vars

\* C26: whatever the backend call of a query fails with (unauthorized, rate
\* limit, billing, Ollama, network, another Error, a thrown value that is
\* not an Error), the call of answer() completes normally: the error is a
\* message, the answer is unset, loading is false, the lock is released and
\* no promise is rejected.
C26_BackendFailureIsCaught ==
    [][(BackendStep /\ lastOutcome' # "ok") =>
          /\ agentState'.error # Undefined
          /\ agentState'.error =
                 ErrorMessage(lastOutcome', agentState.selectedModel)
          /\ agentState'.answer = Undefined
          /\ ~agentState'.loading
          /\ lockQueue' = Tail(lockQueue)
          /\ rejected' = rejected]_vars

C26_Witness ==
    /\ lastOutcome = "thrown"
    /\ agentState.error # Undefined
    /\ agentState.answer = Undefined
    /\ ~agentState.loading
    /\ lockQueue = <<>>
    /\ rejected = {}

\* C27: a query that entered loading ends, with an answer as with an error,
\* with a notification made after loading is reset: the copy of the state
\* it hands out has loading false and holds the answer or the error of the
\* query.
C27_FinalNotificationAfterReset ==
    /\ [][QueryCompletes =>
            /\ stateCopy' = agentState'
            /\ ~stateCopy'.loading
            /\ (stateCopy'.answer # Undefined \/ stateCopy'.error # Undefined)
            /\ (lockQueue[1].st = "backend" /\ lastOutcome' = "ok") =>
                   stateCopy'.answer = <<"answer", lockQueue[1].model>>
            /\ (lockQueue[1].st = "backend" /\ lastOutcome' # "ok") =>
                   stateCopy'.error =
                       ErrorMessage(lastOutcome', agentState.selectedModel)]_vars
    /\ (agentState.loading ~> (~agentState.loading /\ ~stateCopy.loading))

C27_Witness ==
    /\ lastOutcome = "ok"
    /\ nasked = 2
    /\ queryFailed
    /\ stateCopy.answer # Undefined
    /\ stateCopy.error = Undefined
    /\ ~stateCopy.loading
    /\ lockQueue = <<>>

(***************************************************************************)
(* The photos of a query, checked under SpecAgent.                         *)
(***************************************************************************)
\* p is the beginning of s
IsPrefix(p, s) == Len(p) <= Len(s) /\ SubSeq(s, 1, Len(p)) = p

PushPos(id) == CHOOSE k \in 1..Len(pushLog) : pushLog[k] = id

\* C29: the photos of the Agent only grow at the end; no photo pushed to the
\* window is passed to addPhoto twice, the photos are passed, and appended,
\* in the order in which they were pushed to the window.
C29_AppendOnlyNoDuplicates ==
    /\ [][IsPrefix(agentPhotos, agentPhotos')]_vars
    /\ [](/\ \A i \in 1..Len(issued) :
                \E k \in 1..Len(pushLog) : pushLog[k] = issued[i].id
          /\ \A i, j \in 1..Len(issued) :
                i < j => /\ issued[i].id # issued[j].id
                         /\ PushPos(issued[i].id) < PushPos(issued[j].id)
          /\ IsPrefix(agentPhotos, issued))

C29_Witness ==
    /\ Len(pushLog) = MaxPhotos
    /\ Len(agentPhotos) = KeepLast + 1
    /\ agentPhotos = issued
    /\ agentPhotos[1].id = 1
    /\ agentPhotos[2].id = 3
    /\ nActFailed = 1
    /\ Quiescent

\* C30: the number of photos passed to addPhoto by the job is the job's
\* counter processed, which is at most the length of the window; the Agent
\* never holds more than ten photos, however many were pushed.
C30_HandedEqualsProcessed ==
    /\ Len(issued) = processed
    /\ processed <= Len(processedPhotos)
    /\ Len(processedPhotos) <= Len(photos)
    /\ Len(photos) <= KeepLast + 1
    /\ Len(agentPhotos) <= KeepLast + 1

C30_Witness ==
    /\ Len(pushLog) = MaxPhotos
    /\ Len(agentPhotos) = KeepLast + 1
    /\ processed = KeepLast + 1
    /\ Quiescent

(***************************************************************************)
(* loading and the lock, checked under SpecSession.                        *)
(***************************************************************************)
\* the answer actions waiting for the lock or holding it
AnswerActions(q) == {i \in 1..Len(q) : q[i].kind = "answer"}

\* C31: at most one answer action is waiting for the lock or holding it, and
\* loading is true only while there is one: with none, loading is false.
C31_LoadingOnlyWithAnswerAction ==
    /\ Cardinality(AnswerActions(lockQueue)) <= 1
    /\ agentState.loading => AnswerActions(lockQueue) # {}
    /\ AnswerActions(lockQueue) = {} => ~agentState.loading

C31_Witness ==
    /\ nasked = 2
    /\ agentState.loading
    /\ Len(lockQueue) = 2
    /\ AnswerActions(lockQueue) = {2}
    /\ ~Unconfigured

\* C32: wherever addPhoto, setModel or answer give up control (they return,
\* or wait for the lock or for the backend), the copy of the state that
\* #notify made equals the state: every change of the state is followed by
\* #notify before control is given up.
C32_CopyEqualsState == stateCopy = agentState

C32_Witness ==
    /\ QueryAtBackend
    /\ agentState.loading
    /\ agentState.selectedModel = "groq-llama"
    /\ agentState.lastDescription # Undefined
    /\ agentState.answer # Undefined
    /\ stateCopy = agentState

(***************************************************************************)
(* The bytes of a Photo, checked under SpecReasm.                          *)
(***************************************************************************)
\* C33: the buffer of an open transfer, and the Photo emitted at its END,
\* hold the payloads of the records accepted since the START that opened
\* it and nothing else: no byte of a broken transfer, of a completed one
\* or of a record discarded while idle.
C33_PhotoHoldsCurrentTransferOnly ==
    /\ previousChunk # Idle => (xfer.status = "open" /\ buffer = xfer.bytes)
    /\ lastEmit # <<>> =>
          /\ xfer.status = "done"
          /\ Len(lastEmit) = 1
          /\ lastEmit[1].bytes = xfer.bytes

\* a second Photo, with other bytes than the first, is emitted by the last
\* of the records, two of which were not a START or an END of the two
C33_Witness ==
    /\ nrec = MaxRecords
    /\ photoSeq = 2
    /\ lastEmit # <<>>
    /\ lastRec.id = null
    /\ Len(rotating) = 2
    /\ rotating[1].bytes # rotating[2].bytes
    /\ Len(rotating[2].bytes) = 1
    /\ rotating[2].bytes = xfer.bytes
====
